---- MODULE Spec2Model ----
(***************************************************************************)
(* Model of appdaemon/apps/helper/virtual_light.py: the VirtualLight      *)
(* proxy, its command methods and its state-change callback.              *)
(*                                                                         *)
(* The home-automation platform (self.api) is external.  What the getters *)
(* return and what the platform delivers to callback are inputs of the    *)
(* actions; what the object sends (api.turn_on / api.turn_off for the     *)
(* virtual entity, and the method called on each physical light entity)   *)
(* is recorded per handler in apiCalls and entityCalls.                   *)
(*                                                                         *)
(* Every method runs to completion before the next one starts.  Logging   *)
(* (self.api.log) has no effect on the object and is left out, with       *)
(* self.room taken as set.  turn_on_with_brightness_delta_decimal and     *)
(* turn_on_with_temp_kelvin_delta_decimal only convert their argument     *)
(* with helpers of the globals module and then call the delta methods     *)
(* modelled here.  min_color_temp_kelvin and max_color_temp_kelvin are    *)
(* taken as numbers.                                                      *)
(***************************************************************************)
EXTENDS Integers, Sequences, FiniteSets, TLC

VARIABLES
    last_on_brightness,             \* self.last_on_brightness
    last_on_temp_kelvin,            \* self.last_on_temp_kelvin
    overwrite_next_on_brightness,   \* self.overwrite_next_on_brightness
    overwrite_next_on_temp_kelvin,  \* self.overwrite_next_on_temp_kelvin
    last,          \* the handler that ran last: its name, arguments, what it read or received
    apiCalls,      \* the calls that handler made on self.api for self.ha_id, in order
    entityCalls,   \* the calls that handler made on each of self.light_entities, in order
    carriedB,      \* history: api turn-on commands that took their brightness from the stored overwrite
    carriedT       \* history: api turn-on commands that took their temperature from the stored overwrite

vars == <<last_on_brightness, last_on_temp_kelvin, overwrite_next_on_brightness,
          overwrite_next_on_temp_kelvin, last, apiCalls, entityCalls, carriedB, carriedT>>

fields == <<last_on_brightness, last_on_temp_kelvin, overwrite_next_on_brightness,
            overwrite_next_on_temp_kelvin>>

----------------------------------------------------------------------------
(* Python values.  An optional value is None or Some(v).                   *)

None == <<>>
Some(v) == <<v>>
Val(o) == o[1]
Opt(S) == {None} \cup {Some(v) : v \in S}

(* self.default_temp_kelvin *)
default_temp_kelvin == 3000

(* Cap of the history counters carriedB and carriedT (they saturate).      *)
MaxCarried == 2

(* Values the platform reports for the virtual entity and puts in events.  *)
Brightness == {0, 247, 248, 255}
Kelvin == {2900, 2901}
RgbColors == {<<255, 0, 0>>}
(* (min_color_temp_kelvin, max_color_temp_kelvin) of the virtual entity;   *)
(* the second pair is a misconfigured entity with min > max.               *)
KelvinRanges == {<<2000, 6500>>, <<6500, 2000>>}

(* Arguments the callers pass.                                             *)
OverwriteBrightness == {64}
OverwriteKelvin == {4000}
ArgBrightness == {1}
ArgKelvin == {2200}
BrightnessDeltas == {-256, -1, 0, 8, 256}
KelvinDeltas == {-5000, -100, 5000}

(* decimal_to_octet_proportional(0.5).  The helper is imported from the    *)
(* globals module, which is not part of this file; 0.5 * 255 = 127.5, and  *)
(* the helper may round it either way.                                     *)
decimal_to_octet_proportional_half == {127, 128}

----------------------------------------------------------------------------
(* The physical light entities: one of every kind, told apart by which of  *)
(* the optional methods hasattr finds on it.  Every kind has turn_on and   *)
(* turn_off.                                                               *)

light_entities ==
    << {"turn_on_with_brightness_and_temp_kelvin", "turn_on_with_brightness_and_rgb", "turn_on_with_brightness"},
       {"turn_on_with_brightness_and_temp_kelvin", "turn_on_with_brightness_and_rgb"},
       {"turn_on_with_brightness_and_temp_kelvin", "turn_on_with_brightness"},
       {"turn_on_with_brightness_and_rgb", "turn_on_with_brightness"},
       {"turn_on_with_brightness_and_temp_kelvin"},
       {"turn_on_with_brightness_and_rgb"},
       {"turn_on_with_brightness"},
       {} >>

hasattr(light_entity, name) == name \in light_entity

----------------------------------------------------------------------------
(* Calls.                                                                  *)

(* self.api.turn_on(self.ha_id, **kwargs): passed is the set of keyword    *)
(* arguments given; a keyword not given is None in the record.             *)
ApiTurnOn(passed, brightness, temp_kelvin, rgb) ==
    [method |-> "turn_on", passed |-> passed, brightness |-> brightness,
     color_temp_kelvin |-> temp_kelvin, rgb_color |-> rgb]

ApiTurnOff ==
    [method |-> "turn_off", passed |-> {}, brightness |-> None,
     color_temp_kelvin |-> None, rgb_color |-> None]

(* light_entity.<method>(...): a parameter the method does not have is None. *)
EntityCall(method, brightness, temp_kelvin, rgb) ==
    [method |-> method, brightness |-> brightness,
     color_temp_kelvin |-> temp_kelvin, rgb_color |-> rgb]

NoEntityCalls == [i \in DOMAIN light_entities |-> <<>>]

(* The record of a handler run: op is the method, state .. max are what it *)
(* received in the event or read through the getters, arg_* and delta are  *)
(* its arguments, raised tells that it ended in an exception.              *)
Handler(op) ==
    [op |-> op, state |-> "", brightness |-> None, color_temp_kelvin |-> None,
     rgb_color |-> None, min |-> 0, max |-> 0,
     arg_brightness |-> None, arg_temp_kelvin |-> None, arg_rgb |-> None,
     delta |-> 0, raised |-> FALSE]

Ran(h, calls, ecalls) ==
    /\ last' = h
    /\ apiCalls' = calls
    /\ entityCalls' = ecalls

Bump(c) == IF c < MaxCarried THEN c + 1 ELSE c

----------------------------------------------------------------------------
Init ==
    /\ last_on_brightness = None
    /\ last_on_temp_kelvin = None
    /\ overwrite_next_on_brightness = None
    /\ overwrite_next_on_temp_kelvin = None
    /\ last = Handler("__init__")
    /\ apiCalls = <<>>
    /\ entityCalls = NoEntityCalls
    /\ carriedB = 0
    /\ carriedT = 0

----------------------------------------------------------------------------
(* Setters.                                                                *)

SetOverwriteNextOnBrightness(brightness) ==
    /\ overwrite_next_on_brightness' = brightness
    /\ carriedB' = 0
    /\ Ran([Handler("set_overwrite_next_on_brightness") EXCEPT !.arg_brightness = brightness],
           <<>>, NoEntityCalls)
    /\ UNCHANGED <<last_on_brightness, last_on_temp_kelvin, overwrite_next_on_temp_kelvin, carriedT>>

SetOverwriteNextOnTempKelvin(temp_kelvin) ==
    /\ overwrite_next_on_temp_kelvin' = temp_kelvin
    /\ carriedT' = 0
    /\ Ran([Handler("set_overwrite_next_on_temp_kelvin") EXCEPT !.arg_temp_kelvin = temp_kelvin],
           <<>>, NoEntityCalls)
    /\ UNCHANGED <<last_on_brightness, last_on_temp_kelvin, overwrite_next_on_brightness, carriedB>>

----------------------------------------------------------------------------
(* Standard turn on/off methods: the api calls each one makes.             *)

turn_on_with_brightness_and_temp_kelvin(brightness, temp_kelvin) ==
    << ApiTurnOn({"brightness", "color_temp_kelvin"}, brightness, temp_kelvin, None) >>

turn_on_with_brightness_and_rgb(brightness, rgb) ==
    << ApiTurnOn({"brightness", "rgb_color"}, brightness, None, rgb) >>

turn_on_with_brightness(brightness) ==
    IF overwrite_next_on_temp_kelvin # None
    THEN turn_on_with_brightness_and_temp_kelvin(brightness, overwrite_next_on_temp_kelvin)
    ELSE << ApiTurnOn({"brightness"}, brightness, None, None) >>

(* turn_on() whose elif branch forgets the brightness.                     *)
turn_on_bare_elif ==
    IF overwrite_next_on_brightness # None /\ overwrite_next_on_temp_kelvin # None
    THEN turn_on_with_brightness_and_temp_kelvin(overwrite_next_on_brightness,
                                                 overwrite_next_on_temp_kelvin)
    ELSE << ApiTurnOn({}, None, None, None) >>

turn_on ==
    IF overwrite_next_on_brightness # None /\ overwrite_next_on_temp_kelvin # None
    THEN turn_on_with_brightness_and_temp_kelvin(overwrite_next_on_brightness,
                                                 overwrite_next_on_temp_kelvin)
    ELSE IF overwrite_next_on_brightness # None
    THEN turn_on_with_brightness(overwrite_next_on_brightness)
    ELSE << ApiTurnOn({}, None, None, None) >>

turn_off == << ApiTurnOff >>

(* History: which stored overwrite values the calls of turn_on() and of    *)
(* turn_on_with_brightness() take.                                         *)
CarriedByTurnOn ==
    /\ carriedB' = IF overwrite_next_on_brightness # None THEN Bump(carriedB) ELSE carriedB
    /\ carriedT' = IF overwrite_next_on_brightness # None /\ overwrite_next_on_temp_kelvin # None
                   THEN Bump(carriedT) ELSE carriedT

CarriedByTurnOnWithBrightness ==
    /\ carriedT' = IF overwrite_next_on_temp_kelvin # None THEN Bump(carriedT) ELSE carriedT
    /\ UNCHANGED carriedB

TurnOn ==
    /\ Ran(Handler("turn_on"), turn_on, NoEntityCalls)
    /\ CarriedByTurnOn
    /\ UNCHANGED fields

TurnOnWithBrightness(brightness) ==
    /\ Ran([Handler("turn_on_with_brightness") EXCEPT !.arg_brightness = brightness],
           turn_on_with_brightness(brightness), NoEntityCalls)
    /\ CarriedByTurnOnWithBrightness
    /\ UNCHANGED fields

TurnOnWithBrightnessAndTempKelvin(brightness, temp_kelvin) ==
    /\ Ran([Handler("turn_on_with_brightness_and_temp_kelvin")
              EXCEPT !.arg_brightness = brightness, !.arg_temp_kelvin = temp_kelvin],
           turn_on_with_brightness_and_temp_kelvin(brightness, temp_kelvin), NoEntityCalls)
    /\ UNCHANGED <<fields, carriedB, carriedT>>

TurnOnWithBrightnessAndRgb(brightness, rgb) ==
    /\ Ran([Handler("turn_on_with_brightness_and_rgb")
              EXCEPT !.arg_brightness = brightness, !.arg_rgb = rgb],
           turn_on_with_brightness_and_rgb(brightness, rgb), NoEntityCalls)
    /\ UNCHANGED <<fields, carriedB, carriedT>>

TurnOff ==
    /\ Ran(Handler("turn_off"), turn_off, NoEntityCalls)
    /\ UNCHANGED <<fields, carriedB, carriedT>>

(* toggle(): state is what get_state() returns; VirtualLightState(...)     *)
(* raises ValueError for a state that is neither "on" nor "off".           *)
Toggle(state) ==
    /\ IF state = "on"
       THEN /\ Ran([Handler("toggle") EXCEPT !.state = state], turn_off, NoEntityCalls)
            /\ UNCHANGED <<carriedB, carriedT>>
       ELSE IF state = "off"
       THEN /\ Ran([Handler("toggle") EXCEPT !.state = state], turn_on, NoEntityCalls)
            /\ CarriedByTurnOn
       ELSE /\ Ran([Handler("toggle") EXCEPT !.state = state, !.raised = TRUE],
                   <<>>, NoEntityCalls)
            /\ UNCHANGED <<carriedB, carriedT>>
    /\ UNCHANGED fields

----------------------------------------------------------------------------
(* Special turn on methods.                                                *)

TurnOnWithMaxIllumination ==
    /\ Ran(Handler("turn_on_with_max_illumination"),
           turn_on_with_brightness_and_temp_kelvin(Some(255), Some(default_temp_kelvin)),
           NoEntityCalls)
    /\ UNCHANGED <<fields, carriedB, carriedT>>

turn_on_with_last_or_default_temp_kelvin ==
    IF last_on_temp_kelvin # None
    THEN turn_on_with_brightness_and_temp_kelvin(last_on_brightness, last_on_temp_kelvin)
    ELSE IF last_on_brightness # None
    THEN turn_on_with_brightness_and_temp_kelvin(last_on_brightness, Some(default_temp_kelvin))
    ELSE turn_on_with_brightness_and_temp_kelvin(Some(255), Some(default_temp_kelvin))

TurnOnWithLastOrDefaultTempKelvin ==
    /\ Ran(Handler("turn_on_with_last_or_default_temp_kelvin"),
           turn_on_with_last_or_default_temp_kelvin, NoEntityCalls)
    /\ UNCHANGED <<fields, carriedB, carriedT>>

(* The clamp without its lower bound.                                      *)
ClampBrightness_no_floor(new_brightness) ==
    IF new_brightness > 255 THEN 255 ELSE new_brightness

(* new_brightness of turn_on_with_brightness_delta, from                   *)
(* get_brightness() + brightness_delta.                                    *)
ClampBrightness(new_brightness) ==
    IF new_brightness < 0 THEN 0
    ELSE IF new_brightness > 255 THEN 255
    ELSE new_brightness

(* brightness is what get_brightness() returns; None + int raises          *)
(* TypeError before anything is sent.                                      *)
TurnOnWithBrightnessDelta(brightness_delta, brightness) ==
    LET h == [Handler("turn_on_with_brightness_delta")
                EXCEPT !.delta = brightness_delta, !.brightness = brightness]
    IN  /\ IF brightness = None
           THEN /\ Ran([h EXCEPT !.raised = TRUE], <<>>, NoEntityCalls)
                /\ UNCHANGED <<carriedB, carriedT>>
           ELSE /\ Ran(h,
                       turn_on_with_brightness(
                           Some(ClampBrightness(Val(brightness) + brightness_delta))),
                       NoEntityCalls)
                /\ CarriedByTurnOnWithBrightness
        /\ UNCHANGED fields

(* The base that falls back to the default before the last known value.   *)
BaseTempKelvin_default_first(temp_kelvin) ==
    IF temp_kelvin = None THEN default_temp_kelvin ELSE Val(temp_kelvin)

(* The base temperature of turn_on_with_temp_kelvin_delta; temp_kelvin is  *)
(* what get_temp_kelvin() returns.                                         *)
BaseTempKelvin(temp_kelvin) ==
    IF temp_kelvin = None
    THEN IF last_on_temp_kelvin # None THEN Val(last_on_temp_kelvin) ELSE default_temp_kelvin
    ELSE Val(temp_kelvin)

Min2(a, b) == IF a <= b THEN a ELSE b
Max2(a, b) == IF a >= b THEN a ELSE b

(* The clamp with min and max taken in the wrong order.                    *)
ClampTempKelvin_swapped(new_temp_kelvin, min_temp_kelvin, max_temp_kelvin) ==
    Min2(Max2(new_temp_kelvin, max_temp_kelvin), min_temp_kelvin)

(* max(min(new_temp_kelvin, max_temp_kelvin), min_temp_kelvin) *)
ClampTempKelvin(new_temp_kelvin, min_temp_kelvin, max_temp_kelvin) ==
    Max2(Min2(new_temp_kelvin, max_temp_kelvin), min_temp_kelvin)

(* temp_kelvin, range and brightness are what get_temp_kelvin(),           *)
(* get_min_temp_kelvin() / get_max_temp_kelvin() and get_brightness()      *)
(* return.                                                                 *)
TurnOnWithTempKelvinDelta(temp_kelvin_delta, temp_kelvin, range, brightness) ==
    /\ Ran([Handler("turn_on_with_temp_kelvin_delta")
              EXCEPT !.delta = temp_kelvin_delta, !.color_temp_kelvin = temp_kelvin,
                     !.min = range[1], !.max = range[2], !.brightness = brightness],
           turn_on_with_brightness_and_temp_kelvin(
               brightness,
               Some(ClampTempKelvin(BaseTempKelvin(temp_kelvin) + temp_kelvin_delta,
                                    range[1], range[2]))),
           NoEntityCalls)
    /\ UNCHANGED <<fields, carriedB, carriedT>>

----------------------------------------------------------------------------
(* Callback method.                                                        *)

(* The event value `new`: the platform's state of the virtual entity, or   *)
(* the empty string (here the record whose state is "").                   *)
Attributes == [brightness : Opt(Brightness), color_temp_kelvin : Opt(Kelvin),
               rgb_color : Opt(RgbColors)]
NoAttributes == [brightness |-> None, color_temp_kelvin |-> None, rgb_color |-> None]
EmptyNew == [state |-> "", attributes |-> NoAttributes]
NewValues == {EmptyNew} \cup [state : {"on", "off", "unavailable"}, attributes : Attributes]

(* The priority list with RGB tried before the colour temperature.        *)
EntityCommand_rgb_first(light_entity, attributes) ==
    IF /\ attributes.rgb_color # None
       /\ hasattr(light_entity, "turn_on_with_brightness_and_rgb")
    THEN EntityCall("turn_on_with_brightness_and_rgb",
                    attributes.brightness, None, attributes.rgb_color)
    ELSE IF /\ attributes.color_temp_kelvin # None
            /\ hasattr(light_entity, "turn_on_with_brightness_and_temp_kelvin")
    THEN EntityCall("turn_on_with_brightness_and_temp_kelvin",
                    attributes.brightness, attributes.color_temp_kelvin, None)
    ELSE IF hasattr(light_entity, "turn_on_with_brightness")
    THEN EntityCall("turn_on_with_brightness", attributes.brightness, None, None)
    ELSE IF /\ Val(attributes.brightness) > 247
            /\ attributes.color_temp_kelvin # None
            /\ Val(attributes.color_temp_kelvin) > 2900
    THEN EntityCall("turn_on", None, None, None)
    ELSE EntityCall("turn_off", None, None, None)

(* The priority list whose last step forgets the colour temperature.       *)
EntityCommand_brightness_only(light_entity, attributes) ==
    IF /\ attributes.color_temp_kelvin # None
       /\ hasattr(light_entity, "turn_on_with_brightness_and_temp_kelvin")
    THEN EntityCall("turn_on_with_brightness_and_temp_kelvin",
                    attributes.brightness, attributes.color_temp_kelvin, None)
    ELSE IF /\ attributes.rgb_color # None
            /\ hasattr(light_entity, "turn_on_with_brightness_and_rgb")
    THEN EntityCall("turn_on_with_brightness_and_rgb",
                    attributes.brightness, None, attributes.rgb_color)
    ELSE IF hasattr(light_entity, "turn_on_with_brightness")
    THEN EntityCall("turn_on_with_brightness", attributes.brightness, None, None)
    ELSE IF Val(attributes.brightness) > 247
    THEN EntityCall("turn_on", None, None, None)
    ELSE EntityCall("turn_off", None, None, None)

(* The priority list of the loop body: the call one light entity gets on   *)
(* an "on" event with brightness.                                          *)
EntityCommand(light_entity, attributes) ==
    IF /\ attributes.color_temp_kelvin # None
       /\ hasattr(light_entity, "turn_on_with_brightness_and_temp_kelvin")
    THEN EntityCall("turn_on_with_brightness_and_temp_kelvin",
                    attributes.brightness, attributes.color_temp_kelvin, None)
    ELSE IF /\ attributes.rgb_color # None
            /\ hasattr(light_entity, "turn_on_with_brightness_and_rgb")
    THEN EntityCall("turn_on_with_brightness_and_rgb",
                    attributes.brightness, None, attributes.rgb_color)
    ELSE IF hasattr(light_entity, "turn_on_with_brightness")
    THEN EntityCall("turn_on_with_brightness", attributes.brightness, None, None)
    ELSE IF /\ Val(attributes.brightness) > 247
            /\ attributes.color_temp_kelvin # None
            /\ Val(attributes.color_temp_kelvin) > 2900
    THEN EntityCall("turn_on", None, None, None)
    ELSE EntityCall("turn_off", None, None, None)

UpdateLightEntities(attributes) ==
    [i \in DOMAIN light_entities |-> << EntityCommand(light_entities[i], attributes) >>]

(* The off loop that skips the entities taking brightness commands.       *)
TurnOffLightEntities_plain_only ==
    [i \in DOMAIN light_entities |->
        IF hasattr(light_entities[i], "turn_on_with_brightness")
        THEN <<>>
        ELSE << EntityCall("turn_off", None, None, None) >>]

TurnOffLightEntities ==
    [i \in DOMAIN light_entities |-> << EntityCall("turn_off", None, None, None) >>]

(* The update that keeps the old temperature when the event has none.      *)
UpdateLastOnValues_keep_temp(attributes) ==
    /\ last_on_brightness' = attributes.brightness
    /\ last_on_temp_kelvin' = IF attributes.color_temp_kelvin # None
                              THEN attributes.color_temp_kelvin
                              ELSE last_on_temp_kelvin

UpdateLastOnValues(attributes) ==
    /\ last_on_brightness' = attributes.brightness
    /\ last_on_temp_kelvin' = attributes.color_temp_kelvin

(* The clearing that forgets the temperature.                              *)
ClearOverwriteNextOnValues_brightness_only ==
    /\ overwrite_next_on_brightness' = None
    /\ carriedB' = 0
    /\ UNCHANGED <<overwrite_next_on_temp_kelvin, carriedT>>

ClearOverwriteNextOnValues ==
    /\ overwrite_next_on_brightness' = None
    /\ overwrite_next_on_temp_kelvin' = None
    /\ carriedB' = 0
    /\ carriedT' = 0

(* The branch that sends the half brightness without the default          *)
(* temperature.                                                            *)
HalfBrightnessDefaultTemp_no_temp(half) ==
    turn_on_with_brightness(Some(half))

(* The call of the branch for an "on" event whose brightness is None.      *)
HalfBrightnessDefaultTemp(half) ==
    turn_on_with_brightness_and_temp_kelvin(Some(half), Some(default_temp_kelvin))

(* The callback whose "off" branch also clears the overwrite values.       *)
Callback_off_clears(new) ==
    LET h == [Handler("callback") EXCEPT !.state = new.state,
                                         !.brightness = new.attributes.brightness,
                                         !.color_temp_kelvin = new.attributes.color_temp_kelvin,
                                         !.rgb_color = new.attributes.rgb_color]
    IN  IF new = EmptyNew
        THEN /\ Ran(h, <<>>, NoEntityCalls)
             /\ UNCHANGED <<fields, carriedB, carriedT>>
        ELSE IF new.state \notin {"on", "off"}
        THEN /\ Ran([h EXCEPT !.raised = TRUE], <<>>, NoEntityCalls)
             /\ UNCHANGED <<fields, carriedB, carriedT>>
        ELSE IF new.state = "on" /\ new.attributes.brightness # None
        THEN /\ UpdateLastOnValues(new.attributes)
             /\ Ran(h, <<>>, UpdateLightEntities(new.attributes))
             /\ ClearOverwriteNextOnValues
        ELSE IF new.state = "on" /\ new.attributes.brightness = None
        THEN /\ \E half \in decimal_to_octet_proportional_half :
                    Ran(h, HalfBrightnessDefaultTemp(half), NoEntityCalls)
             /\ UNCHANGED <<fields, carriedB, carriedT>>
        ELSE /\ Ran(h, <<>>, TurnOffLightEntities)
             /\ ClearOverwriteNextOnValues
             /\ UNCHANGED <<last_on_brightness, last_on_temp_kelvin>>

Callback(new) ==
    LET h == [Handler("callback") EXCEPT !.state = new.state,
                                         !.brightness = new.attributes.brightness,
                                         !.color_temp_kelvin = new.attributes.color_temp_kelvin,
                                         !.rgb_color = new.attributes.rgb_color]
    IN  IF new = EmptyNew
        THEN /\ Ran(h, <<>>, NoEntityCalls)
             /\ UNCHANGED <<fields, carriedB, carriedT>>
        ELSE IF new.state \notin {"on", "off"}
        THEN \* VirtualLightState(new["state"]) raises ValueError
             /\ Ran([h EXCEPT !.raised = TRUE], <<>>, NoEntityCalls)
             /\ UNCHANGED <<fields, carriedB, carriedT>>
        ELSE IF new.state = "on" /\ new.attributes.brightness # None
        THEN /\ UpdateLastOnValues(new.attributes)
             /\ Ran(h, <<>>, UpdateLightEntities(new.attributes))
             /\ ClearOverwriteNextOnValues
        ELSE IF new.state = "on" /\ new.attributes.brightness = None
        THEN /\ \E half \in decimal_to_octet_proportional_half :
                    Ran(h, HalfBrightnessDefaultTemp(half), NoEntityCalls)
             /\ UNCHANGED <<fields, carriedB, carriedT>>
        ELSE /\ Ran(h, <<>>, TurnOffLightEntities)
             /\ UNCHANGED <<fields, carriedB, carriedT>>

----------------------------------------------------------------------------
Next ==
    \/ \E brightness \in Opt(OverwriteBrightness) : SetOverwriteNextOnBrightness(brightness)
    \/ \E temp_kelvin \in Opt(OverwriteKelvin) : SetOverwriteNextOnTempKelvin(temp_kelvin)
    \/ TurnOn
    \/ \E brightness \in Opt(ArgBrightness) \ {None} : TurnOnWithBrightness(brightness)
    \/ \E brightness \in Opt(ArgBrightness) \ {None}, temp_kelvin \in Opt(ArgKelvin) \ {None} :
           TurnOnWithBrightnessAndTempKelvin(brightness, temp_kelvin)
    \/ \E brightness \in Opt(ArgBrightness) \ {None}, rgb \in Opt(RgbColors) \ {None} :
           TurnOnWithBrightnessAndRgb(brightness, rgb)
    \/ TurnOff
    \/ \E state \in {"on", "off", "unavailable"} : Toggle(state)
    \/ TurnOnWithMaxIllumination
    \/ TurnOnWithLastOrDefaultTempKelvin
    \/ \E brightness_delta \in BrightnessDeltas, brightness \in Opt(Brightness) :
           TurnOnWithBrightnessDelta(brightness_delta, brightness)
    \/ \E temp_kelvin_delta \in KelvinDeltas, temp_kelvin \in Opt(Kelvin),
          range \in KelvinRanges, brightness \in Opt(Brightness) :
           TurnOnWithTempKelvinDelta(temp_kelvin_delta, temp_kelvin, range, brightness)
    \/ \E new \in NewValues : Callback(new)

Spec == Init /\ [][Next]_vars

----------------------------------------------------------------------------
(* Properties.                                                             *)

(* The last handler was callback, on an "on" event with brightness.        *)
OnEventHandled ==
    /\ last.op = "callback"
    /\ ~last.raised
    /\ last.state = "on"
    /\ last.brightness # None

Supports(i, name) == name \in light_entities[i]

(* C1: on an "on" event with brightness b every physical light entity     *)
(* gets exactly the first applicable command of the priority list, with    *)
(* the event's own values: temperature command if the event has a colour   *)
(* temperature and the entity has the method, else RGB command if the      *)
(* event has an RGB colour and the entity has the method, else brightness  *)
(* command if the entity has the method, else turn_on() or turn_off(); an  *)
(* entity with both colour methods never gets the RGB command when the     *)
(* event has a colour temperature.                                         *)
C1_PriorityCascade ==
    OnEventHandled =>
        \A i \in DOMAIN light_entities :
            LET byTemp == /\ last.color_temp_kelvin # None
                          /\ Supports(i, "turn_on_with_brightness_and_temp_kelvin")
                byRgb  == /\ ~byTemp
                          /\ last.rgb_color # None
                          /\ Supports(i, "turn_on_with_brightness_and_rgb")
                byBri  == /\ ~byTemp
                          /\ ~byRgb
                          /\ Supports(i, "turn_on_with_brightness")
            IN  /\ Len(entityCalls[i]) = 1
                /\ byTemp => entityCalls[i][1] =
                       [method |-> "turn_on_with_brightness_and_temp_kelvin",
                        brightness |-> last.brightness,
                        color_temp_kelvin |-> last.color_temp_kelvin, rgb_color |-> None]
                /\ byRgb => entityCalls[i][1] =
                       [method |-> "turn_on_with_brightness_and_rgb",
                        brightness |-> last.brightness,
                        color_temp_kelvin |-> None, rgb_color |-> last.rgb_color]
                /\ byBri => entityCalls[i][1] =
                       [method |-> "turn_on_with_brightness",
                        brightness |-> last.brightness,
                        color_temp_kelvin |-> None, rgb_color |-> None]
                /\ (~byTemp /\ ~byRgb /\ ~byBri) =>
                       entityCalls[i][1].method \in {"turn_on", "turn_off"}
                /\ ( /\ Supports(i, "turn_on_with_brightness_and_temp_kelvin")
                     /\ Supports(i, "turn_on_with_brightness_and_rgb")
                     /\ last.color_temp_kelvin # None )
                   => entityCalls[i][1].method # "turn_on_with_brightness_and_rgb"

(* An event with both a colour temperature and an RGB colour has reached   *)
(* an entity that has both colour methods, as a temperature command.       *)
C1_Witness ==
    /\ OnEventHandled
    /\ last.color_temp_kelvin # None
    /\ last.rgb_color # None
    /\ \E i \in DOMAIN light_entities :
          /\ Supports(i, "turn_on_with_brightness_and_temp_kelvin")
          /\ Supports(i, "turn_on_with_brightness_and_rgb")
          /\ entityCalls[i] # <<>>
          /\ entityCalls[i][1].method = "turn_on_with_brightness_and_temp_kelvin"

(* C2: on an "off" event every physical light entity gets turn_off() and   *)
(* nothing else, whatever happened before.                                 *)
C2_OffTurnsEveryEntityOff ==
    (last.op = "callback" /\ last.state = "off") =>
        \A i \in DOMAIN light_entities :
            /\ Len(entityCalls[i]) = 1
            /\ entityCalls[i][1].method = "turn_off"

(* An "off" event handled after an earlier "on" event, with overwrite      *)
(* values pending.                                                         *)
C2_Witness ==
    /\ last.op = "callback"
    /\ last.state = "off"
    /\ last_on_brightness # None
    /\ overwrite_next_on_brightness # None
    /\ \A i \in DOMAIN light_entities : entityCalls[i] # <<>>

(* A clearing step: callback has taken a stored overwrite value away.      *)
ClearsBrightness ==
    /\ last'.op = "callback"
    /\ overwrite_next_on_brightness # None
    /\ overwrite_next_on_brightness' = None

ClearsTempKelvin ==
    /\ last'.op = "callback"
    /\ overwrite_next_on_temp_kelvin # None
    /\ overwrite_next_on_temp_kelvin' = None

(* C3 as stated: a stored overwrite value is carried by at most one        *)
(* turn-on command sent to the platform, and it has been carried by one    *)
(* when it is cleared.                                                     *)
C3_OneShot ==
    [][ /\ carriedB' <= 1
        /\ carriedT' <= 1
        /\ ClearsBrightness => carriedB >= 1
        /\ ClearsTempKelvin => carriedT >= 1 ]_vars

(* C3 as amended: a stored overwrite value is taken away only by a set     *)
(* call or by callback handling an "on" event with brightness, which       *)
(* clears both values; the turn-on command that carries a value does not   *)
(* clear it.  Until that event every turn_on() carries the stored          *)
(* brightness and every turn_on_with_brightness() the stored temperature   *)
(* (so a value is carried by any number of commands, or by none), and      *)
(* once it is cleared no command carries it until a set call stores one.   *)
C3_ClearedByOnEventOnly ==
    [][ /\ (overwrite_next_on_brightness' # overwrite_next_on_brightness) =>
               \/ last'.op = "set_overwrite_next_on_brightness"
               \/ OnEventHandled'
        /\ (overwrite_next_on_temp_kelvin' # overwrite_next_on_temp_kelvin) =>
               \/ last'.op = "set_overwrite_next_on_temp_kelvin"
               \/ OnEventHandled'
        /\ OnEventHandled' =>
               /\ overwrite_next_on_brightness' = None
               /\ overwrite_next_on_temp_kelvin' = None
        /\ (last'.op = "turn_on" /\ overwrite_next_on_brightness # None) =>
               /\ Len(apiCalls') = 1
               /\ "brightness" \in apiCalls'[1].passed
               /\ apiCalls'[1].brightness = overwrite_next_on_brightness
        /\ (last'.op = "turn_on_with_brightness" /\ overwrite_next_on_temp_kelvin # None) =>
               /\ Len(apiCalls') = 1
               /\ "color_temp_kelvin" \in apiCalls'[1].passed
               /\ apiCalls'[1].color_temp_kelvin = overwrite_next_on_temp_kelvin
        /\ (carriedB' > carriedB) => overwrite_next_on_brightness # None
        /\ (carriedT' > carriedT) => overwrite_next_on_temp_kelvin # None
        /\ (last'.op = "turn_on" /\ overwrite_next_on_brightness = None) =>
               /\ Len(apiCalls') = 1
               /\ apiCalls'[1].passed = {} ]_vars

(* One stored brightness and one stored temperature have each been carried *)
(* by two turn-on commands and are still stored.                           *)
C3_Witness ==
    /\ carriedB >= 2
    /\ carriedT >= 2
    /\ overwrite_next_on_brightness # None
    /\ overwrite_next_on_temp_kelvin # None
    /\ last.op = "turn_on"

(* C4: turn_on_with_brightness_delta(d) sends one turn-on command whose    *)
(* brightness is the current brightness plus d, 0 when that sum is         *)
(* negative and 255 when it exceeds 255; it is never outside 0..255.       *)
C4_BrightnessDeltaClamped ==
    (last.op = "turn_on_with_brightness_delta" /\ last.brightness # None) =>
        /\ ~last.raised
        /\ Len(apiCalls) = 1
        /\ apiCalls[1].method = "turn_on"
        /\ "brightness" \in apiCalls[1].passed
        /\ apiCalls[1].brightness # None
        /\ LET sum == Val(last.brightness) + last.delta
               sent == Val(apiCalls[1].brightness)
           IN  /\ sum < 0 => sent = 0
               /\ sum > 255 => sent = 255
               /\ (0 <= sum /\ sum <= 255) => sent = sum
               /\ 0 <= sent /\ sent <= 255

(* A delta that takes the sum below 0 has been sent as brightness 0.       *)
C4_Witness ==
    /\ last.op = "turn_on_with_brightness_delta"
    /\ last.brightness # None
    /\ Val(last.brightness) + last.delta < 0
    /\ apiCalls # <<>>
    /\ apiCalls[1].brightness = Some(0)

(* The base temperature the delta is applied to, by the rule of C10.       *)
ExpectedBase ==
    IF last.color_temp_kelvin # None THEN Val(last.color_temp_kelvin)
    ELSE IF last_on_temp_kelvin # None THEN Val(last_on_temp_kelvin)
    ELSE 3000

(* C5: turn_on_with_temp_kelvin_delta(d) sends one turn-on command with    *)
(* the current brightness unchanged and with base + d clamped into         *)
(* [min, max]: whenever min <= max the temperature sent is within the      *)
(* range, equal to base + d when that is within it, to min when it is      *)
(* below and to max when it is above.                                      *)
C5_TempKelvinDeltaClamped ==
    last.op = "turn_on_with_temp_kelvin_delta" =>
        /\ Len(apiCalls) = 1
        /\ apiCalls[1].method = "turn_on"
        /\ apiCalls[1].passed = {"brightness", "color_temp_kelvin"}
        /\ apiCalls[1].brightness = last.brightness
        /\ apiCalls[1].color_temp_kelvin # None
        /\ last.min <= last.max =>
               LET target == ExpectedBase + last.delta
                   sent == Val(apiCalls[1].color_temp_kelvin)
               IN  /\ last.min <= sent /\ sent <= last.max
                   /\ target < last.min => sent = last.min
                   /\ target > last.max => sent = last.max
                   /\ (last.min <= target /\ target <= last.max) => sent = target

(* A delta that takes the temperature above max has been sent as max, in   *)
(* a range with min <= max.                                                *)
C5_Witness ==
    /\ last.op = "turn_on_with_temp_kelvin_delta"
    /\ last.min <= last.max
    /\ ExpectedBase + last.delta > last.max
    /\ last.brightness # None
    /\ apiCalls # <<>>
    /\ apiCalls[1].color_temp_kelvin = Some(last.max)

(* C6 as stated: with overwrite_next_on_temp_kelvin pending, turn_on() and *)
(* turn_on_with_brightness(b) send a turn-on command whose                 *)
(* color_temp_kelvin is the pending value, whether or not                  *)
(* overwrite_next_on_brightness is set.                                    *)
C6_PendingTempKelvinApplied ==
    ( /\ last.op \in {"turn_on", "turn_on_with_brightness"}
      /\ overwrite_next_on_temp_kelvin # None ) =>
        /\ Len(apiCalls) = 1
        /\ apiCalls[1].method = "turn_on"
        /\ "color_temp_kelvin" \in apiCalls[1].passed
        /\ apiCalls[1].color_temp_kelvin = overwrite_next_on_temp_kelvin

(* C7: turn_on() sends exactly one turn-on command: with brightness and    *)
(* color_temp_kelvin equal to both overwrite values when both are stored,  *)
(* with only the brightness when only overwrite_next_on_brightness is      *)
(* stored, and with no attributes when overwrite_next_on_brightness is     *)
(* None; it changes neither overwrite field.                               *)
C7_TurnOnCommand ==
    [][ last'.op = "turn_on" =>
          /\ Len(apiCalls') = 1
          /\ apiCalls'[1].method = "turn_on"
          /\ ( /\ overwrite_next_on_brightness # None
               /\ overwrite_next_on_temp_kelvin # None ) =>
                 /\ apiCalls'[1].passed = {"brightness", "color_temp_kelvin"}
                 /\ apiCalls'[1].brightness = overwrite_next_on_brightness
                 /\ apiCalls'[1].color_temp_kelvin = overwrite_next_on_temp_kelvin
          /\ ( /\ overwrite_next_on_brightness # None
               /\ overwrite_next_on_temp_kelvin = None ) =>
                 /\ apiCalls'[1].passed = {"brightness"}
                 /\ apiCalls'[1].brightness = overwrite_next_on_brightness
          /\ overwrite_next_on_brightness = None =>
                 apiCalls'[1].passed = {}
          /\ overwrite_next_on_brightness' = overwrite_next_on_brightness
          /\ overwrite_next_on_temp_kelvin' = overwrite_next_on_temp_kelvin ]_vars

(* turn_on() has run with only the brightness overwrite stored and has     *)
(* sent the brightness alone.                                              *)
C7_Witness ==
    /\ last.op = "turn_on"
    /\ overwrite_next_on_brightness # None
    /\ overwrite_next_on_temp_kelvin = None
    /\ apiCalls # <<>>
    /\ apiCalls[1].passed = {"brightness"}

(* C8: an "on" event whose brightness is None commands no physical light   *)
(* entity, leaves last_on_brightness, last_on_temp_kelvin and both         *)
(* overwrite values unchanged, and sends exactly one turn-on command for   *)
(* the virtual entity, with brightness decimal_to_octet_proportional(0.5)  *)
(* and color_temp_kelvin 3000.                                             *)
C8_OnWithoutBrightness ==
    [][ ( /\ last'.op = "callback"
          /\ last'.state = "on"
          /\ last'.brightness = None ) =>
          /\ \A i \in DOMAIN light_entities : entityCalls'[i] = <<>>
          /\ last_on_brightness' = last_on_brightness
          /\ last_on_temp_kelvin' = last_on_temp_kelvin
          /\ overwrite_next_on_brightness' = overwrite_next_on_brightness
          /\ overwrite_next_on_temp_kelvin' = overwrite_next_on_temp_kelvin
          /\ Len(apiCalls') = 1
          /\ apiCalls'[1].method = "turn_on"
          /\ apiCalls'[1].passed = {"brightness", "color_temp_kelvin"}
          /\ apiCalls'[1].brightness # None
          /\ Val(apiCalls'[1].brightness) \in decimal_to_octet_proportional_half
          /\ apiCalls'[1].color_temp_kelvin = Some(3000) ]_vars

(* Such an event has been handled with last-on values known and both       *)
(* overwrite values stored, all of them still there.                       *)
C8_Witness ==
    /\ last.op = "callback"
    /\ last.state = "on"
    /\ last.brightness = None
    /\ last_on_brightness # None
    /\ last_on_temp_kelvin # None
    /\ overwrite_next_on_brightness # None
    /\ overwrite_next_on_temp_kelvin # None
    /\ apiCalls # <<>>

(* C9: on an "on" event with brightness, an entity with none of the        *)
(* brightness-taking methods gets turn_on() exactly when the brightness    *)
(* is greater than 247 and the colour temperature is non-None and greater  *)
(* than 2900, and turn_off() in every other case.                          *)
C9_PlainEntityThreshold ==
    OnEventHandled =>
        \A i \in DOMAIN light_entities :
            light_entities[i] = {} =>
                /\ Len(entityCalls[i]) = 1
                /\ entityCalls[i][1].method \in {"turn_on", "turn_off"}
                /\ entityCalls[i][1].method = "turn_on" <=>
                       /\ Val(last.brightness) > 247
                       /\ last.color_temp_kelvin # None
                       /\ Val(last.color_temp_kelvin) > 2900

(* A full-brightness event that carries only an RGB colour has turned a    *)
(* plain entity off.                                                       *)
C9_Witness ==
    /\ OnEventHandled
    /\ Val(last.brightness) > 247
    /\ last.color_temp_kelvin = None
    /\ last.rgb_color # None
    /\ \E i \in DOMAIN light_entities :
          /\ light_entities[i] = {}
          /\ entityCalls[i] # <<>>
          /\ entityCalls[i][1].method = "turn_off"

(* C10: the base of turn_on_with_temp_kelvin_delta is the current          *)
(* color_temp_kelvin when it is not None, else last_on_temp_kelvin when    *)
(* that is not None, else 3000; the delta is applied to that base, so the  *)
(* method never fails on a None and sends the base plus the delta put      *)
(* through max(min(., max), min).                                          *)
C10_BaseTempKelvin ==
    last.op = "turn_on_with_temp_kelvin_delta" =>
        /\ ~last.raised
        /\ Len(apiCalls) = 1
        /\ apiCalls[1].color_temp_kelvin # None
        /\ LET sent == Val(apiCalls[1].color_temp_kelvin)
               Sent(base) == Max2(Min2(base + last.delta, last.max), last.min)
           IN  /\ last.color_temp_kelvin # None =>
                      sent = Sent(Val(last.color_temp_kelvin))
               /\ (last.color_temp_kelvin = None /\ last_on_temp_kelvin # None) =>
                      sent = Sent(Val(last_on_temp_kelvin))
               /\ (last.color_temp_kelvin = None /\ last_on_temp_kelvin = None) =>
                      sent = Sent(3000)

(* With no current temperature, the last known one (not the default) has   *)
(* been the base: the temperature sent is it plus the delta, unclamped.    *)
C10_Witness ==
    /\ last.op = "turn_on_with_temp_kelvin_delta"
    /\ last.color_temp_kelvin = None
    /\ last_on_temp_kelvin # None
    /\ Val(last_on_temp_kelvin) # 3000
    /\ apiCalls # <<>>
    /\ apiCalls[1].color_temp_kelvin = Some(Val(last_on_temp_kelvin) + last.delta)
    /\ last.min < Val(last_on_temp_kelvin) + last.delta
    /\ Val(last_on_temp_kelvin) + last.delta < last.max

(* C11: last_on_brightness and last_on_temp_kelvin are the brightness and  *)
(* color_temp_kelvin of the most recent handled "on" event with            *)
(* brightness, and None while there has been none: they start as None,     *)
(* every handling of such an event sets both to the event's values (the    *)
(* temperature to None when the event has none), and no other method or    *)
(* branch of callback writes them.                                         *)
C11_LastOnValues ==
    /\ (last_on_brightness = None /\ last_on_temp_kelvin = None)
    /\ [][ /\ OnEventHandled' =>
                  /\ last_on_brightness' = last'.brightness
                  /\ last_on_temp_kelvin' = last'.color_temp_kelvin
           /\ ~OnEventHandled' =>
                  /\ last_on_brightness' = last_on_brightness
                  /\ last_on_temp_kelvin' = last_on_temp_kelvin ]_vars

(* After an "on" event with a colour temperature, an "on" event without    *)
(* one has been handled and then another method has run: the brightness    *)
(* of that event is still the last one and the temperature is None.        *)
C11_Witness ==
    /\ last.op = "turn_on_with_last_or_default_temp_kelvin"
    /\ last_on_brightness # None
    /\ last_on_temp_kelvin = None
    /\ apiCalls # <<>>
    /\ apiCalls[1].brightness = last_on_brightness
    /\ apiCalls[1].color_temp_kelvin = Some(3000)

(* C12: callback resets both overwrite values to None when it handles an   *)
(* "on" event with brightness, and in no other case: handling an "off"     *)
(* event, an "on" event whose brightness is None, or new == "" leaves both *)
(* unchanged, and so does every method other than the two set calls, so a  *)
(* value stored while the light is off stays until the next "on" event     *)
(* with brightness.                                                        *)
C12_ResetOnlyByOnEvent ==
    [][ /\ OnEventHandled' =>
               /\ overwrite_next_on_brightness' = None
               /\ overwrite_next_on_temp_kelvin' = None
        /\ ( /\ last'.op = "callback"
             /\ \/ last'.state = "off"
                \/ last'.state = "on" /\ last'.brightness = None
                \/ last'.state = "" ) =>
               /\ overwrite_next_on_brightness' = overwrite_next_on_brightness
               /\ overwrite_next_on_temp_kelvin' = overwrite_next_on_temp_kelvin
        /\ ( /\ ~OnEventHandled'
             /\ last'.op \notin {"set_overwrite_next_on_brightness",
                                 "set_overwrite_next_on_temp_kelvin"} ) =>
               /\ overwrite_next_on_brightness' = overwrite_next_on_brightness
               /\ overwrite_next_on_temp_kelvin' = overwrite_next_on_temp_kelvin ]_vars

(* An "off" event has been handled with both overwrite values stored and   *)
(* carried by no command yet, and both are still stored.                   *)
C12_Witness ==
    /\ last.op = "callback"
    /\ last.state = "off"
    /\ overwrite_next_on_brightness # None
    /\ overwrite_next_on_temp_kelvin # None
    /\ carriedB = 0
    /\ carriedT = 0

====
